---- MODULE Spec2Model ----
(***************************************************************************)
(* PDF quiz generator (ixacik/test-ai).                                    *)
(*                                                                         *)
(*   Spec        the quiz session of src/app/page.tsx (PdfQuizPage): the   *)
(*               React state, one action per event handler, and the two    *)
(*               fetch calls with their continuations.  A gateway answers  *)
(*               an outstanding call in a step of its own.                 *)
(*   SpecUpload  one POST /upload request (unnamed/part_000, lines         *)
(*               189-435), one action per remote call.                     *)
(*   SpecChat    one POST /api/chat request (src/app/api/chat/route.ts,    *)
(*               lines 34-284), one action per remote call.                *)
(*                                                                         *)
(* Indices: the code's arrays are 0-based, TLA+ sequences 1-based, so the  *)
(* current question is questions[currentQuestionIndex + 1].                *)
(***************************************************************************)
EXTENDS Integers, Sequences, FiniteSets, TLC

VARIABLES
    \* ---- page.tsx, lines 55-69: the component's state
    selectedFiles,          \* UploadedFile[]: <<[id, status]>>
    vectorStoreId,          \* string | null (NoStore is null)
    questions,              \* QuizQuestion[]
    currentQuestionIndex,   \* 0-based
    selectedOption,         \* Option | null: the option object, by its place
    isAnswered,
    score,
    isLoading,
    isUploading,
    error,                  \* string | null
    quizStarted,
    quizFinished,
    shuffledOptions,        \* Option[]: the options of the current question as displayed
    \* ---- the fetch calls in flight (page.tsx 175, 247) and fresh ids
    calls,
    nextCall,
    nextFileId,
    \* ---- history, read by the properties only
    answeredSoFar,          \* selections recorded since the list was last emptied or replaced
    lastEvent,              \* the call completion or re-selection that made this state
    storeDocuments,         \* the files held by the store that vectorStoreId names
    \* ---- one POST /upload request (part_000, 189-435)
    up,
    \* ---- one POST /api/chat request (route.ts, 34-284)
    gen

sessionVars == <<questions, currentQuestionIndex, selectedOption, isAnswered, score,
                 quizStarted, quizFinished, shuffledOptions, answeredSoFar>>
busyVars == <<isLoading, isUploading>>
fileVars == <<selectedFiles, nextFileId>>
callVars == <<calls, nextCall>>
storeVars == <<vectorStoreId, storeDocuments>>
pageVars == <<sessionVars, busyVars, fileVars, callVars, storeVars, error, lastEvent>>
gatewayVars == <<up, gen>>
vars == <<pageVars, gatewayVars>>

---------------------------------------------------------------------------
\* Bounds of the model.

\* Gateway transactions (start-quiz, more-questions, restart) in one behaviour.
MaxCalls == 3
\* Files the user stages in one behaviour.
MaxFileId == 2
\* Files of an upload batch beyond the gateway's maximum count.
MaxExtraFiles == 1

---------------------------------------------------------------------------
\* Values.

NoStore == 0
NoError == "null"
NoOption == [q |-> -1, o |-> 0]

Opt(text, correct) == [option |-> text, correct |-> correct]
Qn(text, options) == [question |-> text, options |-> options]

\* What the provider may hand back for a generation request.  The prompt
\* asks for one correct option per question and for no repeats, but the
\* provider is free to answer anything.
QuizOne == << Qn("q1", <<Opt("a", TRUE), Opt("b", FALSE)>>) >>
QuizTwo == << Qn("q2", <<Opt("a", FALSE), Opt("b", TRUE), Opt("c", FALSE)>>),
              Qn("q3", <<Opt("a", TRUE), Opt("b", FALSE)>>) >>
QuizBadCorrect == << Qn("q4", <<Opt("a", FALSE), Opt("b", FALSE)>>),
                     Qn("q5", <<Opt("a", TRUE), Opt("b", TRUE)>>) >>
QuizEmpty == << >>
QuizOneOption == << Qn("q6", <<Opt("a", TRUE)>>) >>
QuizFiveOptions == << Qn("q7", <<Opt("a", TRUE), Opt("b", FALSE), Opt("c", FALSE),
                                 Opt("d", FALSE), Opt("e", FALSE)>>) >>
QuizNoText == << Qn("", <<Opt("a", TRUE), Opt("b", FALSE)>>) >>
QuizNoOptionText == << Qn("q8", <<Opt("a", TRUE), Opt("", FALSE)>>) >>

ProviderQuizzes == {QuizOne, QuizTwo, QuizBadCorrect, QuizEmpty, QuizOneOption,
                    QuizFiveOptions, QuizNoText, QuizNoOptionText}

Range(s) == {s[i] : i \in 1..Len(s)}

---------------------------------------------------------------------------
\* api/chat/route.ts: the schema a generated quiz is parsed against.

MinOptions == 2
MaxOptions == 4
MinQuestions == 1
MaxQuizQuestions == 10

QuizOptionSchema(o) == o.option # "" /\ o.correct \in BOOLEAN

\* Mutant: the number of options has no upper limit.
QuizQuestionSchema_NoMax(q) ==
    /\ q.question # ""
    /\ \A o \in Range(q.options) : QuizOptionSchema(o)
    /\ Len(q.options) >= MinOptions

QuizQuestionSchema(q) ==
    /\ q.question # ""
    /\ \A o \in Range(q.options) : QuizOptionSchema(o)
    /\ Len(q.options) >= MinOptions
    /\ Len(q.options) <= MaxOptions

QuizSchema(quiz) ==
    /\ \A q \in Range(quiz) : QuizQuestionSchema(q)
    /\ Len(quiz) >= MinQuestions
    /\ Len(quiz) <= MaxQuizQuestions

MsgInvalidQuiz == "Invalid quiz format generated by AI."
MsgStoreNotFound == "Vector store not found or inaccessible. Please upload files again."
MsgGenerateFailed == "An unexpected error occurred while generating the quiz."
MsgUploadFailed == "An unexpected error occurred during file upload."
MsgUploadInvalid == "No PDF files were uploaded. Please select at least one PDF file."

Response(status, message, quiz, store, batchStatus) ==
    [status |-> status, message |-> message, quiz |-> quiz,
     vectorStoreId |-> store, batchStatus |-> batchStatus]
NoResponse == Response(0, "", << >>, NoStore, "none")

\* route.ts 220-229 and 256-268: a parsed provider answer is returned with
\* 200 iff QuizSchema.parse accepts it, and with 400 otherwise.
ChatValidated(parsedResponse) ==
    IF QuizSchema(parsedResponse)
    THEN Response(200, "", parsedResponse, NoStore, "none")
    ELSE Response(400, MsgInvalidQuiz, << >>, NoStore, "none")

\* page.tsx 119-124: a 200 whose body carries no question.  The page is
\* written for it, whoever answers its request.
EmptyQuizResponse == Response(200, "", << >>, NoStore, "none")

\* Every answer the page can get for its POST /api/chat.
ChatResponses ==
    {ChatValidated(p) : p \in ProviderQuizzes}
        \cup {Response(404, MsgStoreNotFound, << >>, NoStore, "none"),
              Response(500, MsgGenerateFailed, << >>, NoStore, "none"),
              EmptyQuizResponse}

\* Every answer POST /api/upload can give the page for the call with this id:
\* the store it created with the attach completed or still in progress, a
\* validation error or a failure.
UploadResponses(store) ==
    {Response(200, "", << >>, store, "completed"),
     Response(200, "", << >>, store, "in_progress"),
     Response(400, MsgUploadInvalid, << >>, NoStore, "none"),
     Response(500, MsgUploadFailed, << >>, NoStore, "none")}

ResponseOk(r) == r.status >= 200 /\ r.status <= 299

---------------------------------------------------------------------------
\* page.tsx: what is on screen.

\* Lines 375, 483, 588: which of the three screens is rendered.
Screen ==
    IF quizStarted /\ ~quizFinished /\ Len(questions) > 0 THEN "quiz"
    ELSE IF quizFinished THEN "finished"
    ELSE "upload"

\* The session phase of the specification, read off the rendered screen and
\* the busy flags (lines 375, 483, 689-694).
Phase ==
    IF Screen = "quiz" THEN "Answering"
    ELSE IF isUploading THEN "Uploading"
    ELSE IF isLoading THEN "Generating"
    ELSE IF Screen = "finished" THEN "Finished"
    ELSE "CollectingFiles"

\* Lines 319-324: the options offered for the current question.
CurrentOptions ==
    IF Len(questions) = 0 \/ currentQuestionIndex >= Len(questions)
    THEN << >>
    ELSE questions[currentQuestionIndex + 1].options

Swap(array, i, j) == [array EXCEPT ![i] = array[j], ![j] = array[i]]

\* Lines 45-52: shuffleArray, from place i down; every j that Math.random
\* can give is a way to go on.  Place i is newArray[i - 1] of the code.
RECURSIVE ShuffleFrom(_, _)
ShuffleFrom(newArray, i) ==
    IF i <= 1 THEN {newArray}
    ELSE UNION {ShuffleFrom(Swap(newArray, i, j), i - 1) : j \in 1..i}

ShuffleArray(array) == ShuffleFrom(array, Len(array))

\* Lines 319-323: what the memo computes for a question list and an index.
ShuffledOptionsOf(qs, index) ==
    IF Len(qs) = 0 \/ index >= Len(qs) THEN {<< >>}
    ELSE ShuffleArray(qs[index + 1].options)

\* Mutant: the memo is recomputed on every render.
DepsUnchanged_Never == FALSE

\* Line 324: the dependencies of the memo are those of the last render.
DepsUnchanged == <<questions', currentQuestionIndex'>> = <<questions, currentQuestionIndex>>

\* Lines 318-324: the render that follows a state change.
Render ==
    shuffledOptions' \in IF DepsUnchanged THEN {shuffledOptions}
                         ELSE ShuffledOptionsOf(questions', currentQuestionIndex')

\* Line 484: Math.round((score / questions.length) * 100), halves upwards.
\* The doubles of the code give this value for every list of fewer than 40
\* questions; at 23 of 40 they give 57.49999999999999 and so 57, not 58.
PercentageOf(points, total) == (200 * points + total) \div (2 * total)
Percentage == PercentageOf(score, Len(questions))

\* Mutant: 70 itself is not yet "good".
PerformanceBand_Above70(percentage) ==
    IF percentage >= 90 THEN "excellent"
    ELSE IF percentage > 70 THEN "good"
    ELSE IF percentage >= 50 THEN "fair"
    ELSE "poor"

\* Lines 488-500: the message chosen for a percentage.
PerformanceBand(percentage) ==
    IF percentage >= 90 THEN "excellent"
    ELSE IF percentage >= 70 THEN "good"
    ELSE IF percentage >= 50 THEN "fair"
    ELSE "poor"

SessionView ==
    [questions |-> questions, currentQuestionIndex |-> currentQuestionIndex,
     selectedOption |-> selectedOption, isAnswered |-> isAnswered,
     score |-> score, phase |-> Phase]

NoEvent == [op |-> "none", trigger |-> "none", ok |-> FALSE, stale |-> FALSE]
Completion(c, ok) == [op |-> "settled", trigger |-> c.trigger, ok |-> ok, stale |-> c.stale]

\* A fetch in flight.  pre is the session as it was when the user triggered
\* it, stale is set once the user has gone back to "upload new files".
Call(id, kind, trigger, isContinuation, store, existing, files, pre) ==
    [id |-> id, kind |-> kind, trigger |-> trigger, isContinuation |-> isContinuation,
     vectorStoreId |-> store, existingQuestions |-> existing, files |-> files,
     status |-> "pending", resp |-> NoResponse, stale |-> FALSE, pre |-> pre]

FileRec(id, status) == [id |-> id, status |-> status]
\* Mutant: the files handed to the gateway are dropped from the list.
WithStatus_DropUploaded(files, status) ==
    IF status = "uploaded" THEN << >>
    ELSE [i \in 1..Len(files) |-> FileRec(files[i].id, status)]

\* Mutant: the statuses are left as they are.
WithStatus_Keep(files, status) == files

WithStatus(files, status) == [i \in 1..Len(files) |-> FileRec(files[i].id, status)]
FileIds(files) == [i \in 1..Len(files) |-> files[i].id]

RECURSIVE Filter(_, _)
Filter(files, fileId) ==
    IF files = << >> THEN << >>
    ELSE IF Head(files).id # fileId
         THEN <<Head(files)>> \o Filter(Tail(files), fileId)
         ELSE Filter(Tail(files), fileId)

---------------------------------------------------------------------------
\* page.tsx: state updates shared by the handlers.

MsgNoValidPdf == "Please select at least one valid PDF file."
MsgSelectFirst == "Please select at least one PDF file first."
MsgNoNewQuestions == "The API returned no new questions from the PDFs, or the format was unexpected."
MsgNoQuestions == "No questions could be generated from these PDFs, or the data format was unexpected."

\* Lines 75-86: the picked files of type application/pdf, as pending entries
\* with fresh ids.  picked[i] is TRUE for a file whose type is application/pdf.
RECURSIVE NewFiles(_, _)
NewFiles(picked, firstId) ==
    IF picked = << >> THEN << >>
    ELSE IF Head(picked)
         THEN <<FileRec(firstId, "pending")>> \o NewFiles(Tail(picked), firstId + 1)
         ELSE NewFiles(Tail(picked), firstId)

FilePicks == {<< >>, <<FALSE>>, <<TRUE>>, <<FALSE, TRUE>>}

\* Lines 104-113.
ResetQuizState ==
    /\ questions' = << >>
    /\ currentQuestionIndex' = 0
    /\ selectedOption' = NoOption
    /\ isAnswered' = FALSE
    /\ score' = 0
    /\ quizStarted' = FALSE
    /\ quizFinished' = FALSE
    /\ error' = NoError
    /\ answeredSoFar' = 0
    /\ Render

\* Mutant: the new batch replaces the list instead of extending it.
AppendedQuestions_Replace(prevQuestions, newQuestions) == newQuestions

\* Mutant: the index is taken one place too far.
FirstAppendedIndex_OnePast(prevQuestions) == Len(prevQuestions) + 1

\* Lines 128-131: the list and the index after appending a batch.
AppendedQuestions(prevQuestions, newQuestions) == prevQuestions \o newQuestions
FirstAppendedIndex(prevQuestions) == Len(prevQuestions)

\* Mutant: an answer without questions raises no error.
EmptyQuizError_None(isAppending) == NoError

\* Lines 141-147: the message for an answer without questions.
EmptyQuizError(isAppending) == IF isAppending THEN MsgNoNewQuestions ELSE MsgNoQuestions

\* Lines 115-153.  data is the body of a 200 response.
HandleProcessQuizData(data, isAppending) ==
    /\ IF Len(data.quiz) > 0
       THEN /\ questions' = IF isAppending
                            THEN AppendedQuestions(questions, data.quiz)
                            ELSE data.quiz
            /\ currentQuestionIndex' = IF isAppending THEN FirstAppendedIndex(questions) ELSE 0
            /\ selectedOption' = NoOption
            /\ isAnswered' = FALSE
            /\ quizStarted' = TRUE
            /\ quizFinished' = FALSE
            /\ error' = NoError
            /\ answeredSoFar' = IF isAppending THEN answeredSoFar ELSE 0
       ELSE /\ error' = EmptyQuizError(isAppending)
            /\ quizStarted' = IF isAppending THEN quizStarted ELSE FALSE
            /\ questions' = IF isAppending THEN questions ELSE << >>
            /\ answeredSoFar' = IF isAppending THEN answeredSoFar ELSE 0
            /\ UNCHANGED <<currentQuestionIndex, selectedOption, isAnswered, quizFinished>>
    /\ Render

\* Mutant: a fresh request forgets to reset the score.
ScoreOnFetch_Keep(isContinuation) == score

\* Lines 228-236: the score a generation request starts with.
ScoreOnFetch(isContinuation) == IF isContinuation THEN score ELSE 0

\* Mutant: a continuation empties the list as a fresh request does.
QuestionsOnFetch_Clear(isContinuation) == << >>

\* Lines 228-230: the question list a generation request starts with.
QuestionsOnFetch(isContinuation) == IF isContinuation THEN questions ELSE << >>

\* Mutant: a fresh request leaves the finished flag as it is.
QuizFinishedOnFetch_Keep(isContinuation) == quizFinished

\* Line 235: the finished flag a generation request starts with.
QuizFinishedOnFetch(isContinuation) == IF isContinuation THEN quizFinished ELSE FALSE

\* Lines 225-236: fetchQuizFromVectorStore up to its request.
FetchQuizBegin(isContinuation) ==
    /\ isLoading' = TRUE
    /\ error' = NoError
    /\ questions' = QuestionsOnFetch(isContinuation)
    /\ currentQuestionIndex' = IF isContinuation THEN currentQuestionIndex ELSE 0
    /\ selectedOption' = IF isContinuation THEN selectedOption ELSE NoOption
    /\ isAnswered' = IF isContinuation THEN isAnswered ELSE FALSE
    /\ score' = ScoreOnFetch(isContinuation)
    /\ quizFinished' = QuizFinishedOnFetch(isContinuation)
    /\ answeredSoFar' = IF isContinuation THEN answeredSoFar ELSE 0
    /\ Render

\* Mutant: every request carries the texts of the questions on the page.
ExistingQuestions_Always(isContinuation) ==
    [i \in 1..Len(questions) |-> questions[i].question]

\* Lines 238-244: the exclusion list of the request body.
ExistingQuestions(isContinuation) ==
    IF isContinuation /\ Len(questions) > 0
    THEN [i \in 1..Len(questions) |-> questions[i].question]
    ELSE << >>

ChatCall(id, trigger, store, isContinuation, pre) ==
    Call(id, "chat", trigger, isContinuation, store,
         ExistingQuestions(isContinuation), << >>, pre)

\* Mutant: the start button ignores the upload in flight.
StartDisabled_NoUploading == Len(selectedFiles) = 0 \/ isLoading

\* Lines 683-685: the start button is disabled.
StartDisabled == Len(selectedFiles) = 0 \/ isLoading \/ isUploading

\* Lines 537, 555: the "More Questions" and "Restart Quiz" buttons are disabled.
ContinueDisabled == isLoading

\* Mutant: a store handle is enough to skip the upload.
NeedsUpload_OnlyWithoutStore == vectorStoreId = NoStore

\* Lines 289-292: start-quiz has to upload first.
NeedsUpload ==
    \/ vectorStoreId = NoStore
    \/ \E i \in 1..Len(selectedFiles) : selectedFiles[i].status # "uploaded"

\* Mutant: the handler lost its guard.
SelectIgnored_Never == FALSE

\* Line 327: a selection on an answered question is dropped.
SelectIgnored == isAnswered

\* Mutant: every selection scores.
ScoreAfterSelect_Always(option) == score + 1

\* Lines 330-332.
ScoreAfterSelect(option) == IF option.correct THEN score + 1 ELSE score

---------------------------------------------------------------------------
\* page.tsx: the handlers.

\* Lines 71-98, on the upload screen (the input of line 620).
HandleFileChange(picked) ==
    /\ Screen = "upload"
    /\ nextFileId + Len(NewFiles(picked, nextFileId)) - 1 <= MaxFileId
    /\ IF Len(NewFiles(picked, nextFileId)) = 0
       THEN /\ error' = MsgNoValidPdf
            /\ UNCHANGED fileVars
       ELSE /\ selectedFiles' = selectedFiles \o NewFiles(picked, nextFileId)
            /\ nextFileId' = nextFileId + Len(NewFiles(picked, nextFileId))
            /\ error' = NoError
    /\ lastEvent' = NoEvent
    /\ UNCHANGED <<sessionVars, busyVars, callVars, storeVars, gatewayVars>>

\* Lines 100-102, from the button of line 661.
RemoveFile(fileId) ==
    /\ Screen = "upload"
    /\ \E i \in 1..Len(selectedFiles) : selectedFiles[i].id = fileId
    /\ selectedFiles' = Filter(selectedFiles, fileId)
    /\ lastEvent' = NoEvent
    /\ UNCHANGED <<sessionVars, busyVars, callVars, storeVars, error, nextFileId, gatewayVars>>

\* Lines 280-300 up to the first await: either uploadFilesToVectorStore
\* (155-178) or fetchQuizFromVectorStore (221-253) sends its request.
HandleStartQuiz ==
    /\ Screen = "upload"
    /\ ~StartDisabled
    /\ nextCall <= MaxCalls
    /\ lastEvent' = NoEvent
    /\ IF Len(selectedFiles) = 0
       THEN /\ error' = MsgSelectFirst
            /\ UNCHANGED <<sessionVars, busyVars, fileVars, callVars, storeVars, gatewayVars>>
       ELSE IF NeedsUpload
       THEN /\ isUploading' = TRUE
            /\ error' = NoError
            /\ selectedFiles' = WithStatus(selectedFiles, "uploading")
            /\ calls' = calls \cup {Call(nextCall, "upload", "start", FALSE, NoStore, << >>,
                                         FileIds(selectedFiles), SessionView)}
            /\ nextCall' = nextCall + 1
            /\ UNCHANGED <<sessionVars, isLoading, nextFileId, storeVars, gatewayVars>>
       ELSE /\ FetchQuizBegin(FALSE)
            /\ calls' = calls \cup {ChatCall(nextCall, "start", vectorStoreId, FALSE, SessionView)}
            /\ nextCall' = nextCall + 1
            /\ UNCHANGED <<quizStarted, isUploading, fileVars, storeVars, gatewayVars>>

\* POST /api/upload answers the call.
GatewayUploadResponds(c) ==
    /\ c.kind = "upload" /\ c.status = "pending"
    /\ \E r \in UploadResponses(c.id) :
          calls' = (calls \ {c}) \cup {[c EXCEPT !.status = "responded", !.resp = r]}
    /\ UNCHANGED <<sessionVars, busyVars, fileVars, nextCall, storeVars, error, lastEvent, gatewayVars>>

\* Lines 180-218 and 294-299: uploadFilesToVectorStore after its response,
\* and, without another event in between, the rest of handleStartQuiz up to
\* the generation request.
HandleStartQuizAfterUpload(c) ==
    /\ c.kind = "upload" /\ c.status = "responded"
    /\ isUploading' = FALSE
    /\ IF ResponseOk(c.resp)
       THEN /\ selectedFiles' = WithStatus(selectedFiles, "uploaded")
            /\ vectorStoreId' = c.resp.vectorStoreId
            /\ storeDocuments' = c.files
            /\ FetchQuizBegin(FALSE)
            /\ calls' = (calls \ {c}) \cup
                          {[ChatCall(c.id, c.trigger, c.resp.vectorStoreId, FALSE, c.pre)
                              EXCEPT !.stale = c.stale]}
            /\ lastEvent' = NoEvent
            /\ UNCHANGED <<quizStarted, nextCall, nextFileId, gatewayVars>>
       ELSE /\ error' = c.resp.message
            /\ selectedFiles' = WithStatus(selectedFiles, "error")
            /\ calls' = calls \ {c}
            /\ lastEvent' = Completion(c, FALSE)
            /\ UNCHANGED <<sessionVars, isLoading, nextCall, nextFileId, storeVars, gatewayVars>>

\* POST /api/chat answers the call.
GatewayChatResponds(c) ==
    /\ c.kind = "chat" /\ c.status = "pending"
    /\ \E r \in ChatResponses :
          calls' = (calls \ {c}) \cup {[c EXCEPT !.status = "responded", !.resp = r]}
    /\ UNCHANGED <<sessionVars, busyVars, fileVars, nextCall, storeVars, error, lastEvent, gatewayVars>>

\* Mutant: the flag is cleared at the end of the try block only.
LoadingAfterFetch_OnlyOnSuccess(ok) == ~ok

\* Lines 275-277: the finally block, after a response that was ok or not.
LoadingAfterFetch(ok) == FALSE

\* Lines 255-277: fetchQuizFromVectorStore after its response.
FetchQuizSettled(c) ==
    /\ c.kind = "chat" /\ c.status = "responded"
    /\ IF ResponseOk(c.resp)
       THEN HandleProcessQuizData(c.resp, c.isContinuation)
       ELSE /\ error' = c.resp.message
            /\ quizStarted' = IF c.isContinuation THEN quizStarted ELSE FALSE
            /\ UNCHANGED <<questions, currentQuestionIndex, selectedOption, isAnswered,
                           quizFinished, answeredSoFar>>
            /\ Render
    /\ isLoading' = LoadingAfterFetch(ResponseOk(c.resp))
    /\ calls' = calls \ {c}
    /\ lastEvent' = Completion(c, ResponseOk(c.resp) /\ Len(c.resp.quiz) > 0)
    /\ UNCHANGED <<score, isUploading, fileVars, nextCall, storeVars, gatewayVars>>

\* Lines 302-305, from the button of lines 535-538.
HandleFetchAndContinueQuiz ==
    /\ Screen = "finished"
    /\ ~ContinueDisabled
    /\ lastEvent' = NoEvent
    /\ IF vectorStoreId = NoStore
       THEN UNCHANGED <<sessionVars, busyVars, fileVars, callVars, storeVars, error, gatewayVars>>
       ELSE /\ nextCall <= MaxCalls
            /\ FetchQuizBegin(TRUE)
            /\ calls' = calls \cup {ChatCall(nextCall, "more", vectorStoreId, TRUE, SessionView)}
            /\ nextCall' = nextCall + 1
            /\ UNCHANGED <<quizStarted, isUploading, fileVars, storeVars, gatewayVars>>

\* Lines 307-310, from the button of lines 553-556.
HandleRestartQuizFromFiles ==
    /\ Screen = "finished"
    /\ ~ContinueDisabled
    /\ lastEvent' = NoEvent
    /\ IF vectorStoreId = NoStore
       THEN UNCHANGED <<sessionVars, busyVars, fileVars, callVars, storeVars, error, gatewayVars>>
       ELSE /\ nextCall <= MaxCalls
            /\ FetchQuizBegin(FALSE)
            /\ calls' = calls \cup {ChatCall(nextCall, "restart", vectorStoreId, FALSE, SessionView)}
            /\ nextCall' = nextCall + 1
            /\ UNCHANGED <<quizStarted, isUploading, fileVars, storeVars, gatewayVars>>

\* Lines 312-316, from the buttons of lines 383-390 and 572-579.  The calls
\* in flight are left running; they now belong to the session that was reset.
HandleUploadNewFiles ==
    /\ Screen \in {"quiz", "finished"}
    /\ ResetQuizState
    /\ selectedFiles' = << >>
    /\ vectorStoreId' = NoStore
    /\ storeDocuments' = << >>
    /\ calls' = {[c EXCEPT !.stale = TRUE] : c \in calls}
    /\ lastEvent' = NoEvent
    /\ UNCHANGED <<busyVars, nextCall, nextFileId, gatewayVars>>

\* Lines 326-333, from an option button of the quiz screen (439-443).  The
\* button's disabled attribute is the handler's own guard, so the handler is
\* modelled as reachable on an answered question and its guard decides.
HandleOptionSelect(o) ==
    /\ Screen = "quiz"
    /\ o \in 1..Len(CurrentOptions)
    /\ IF SelectIgnored
       THEN /\ lastEvent' = [NoEvent EXCEPT !.op = "reselect"]
            /\ UNCHANGED sessionVars
       ELSE /\ selectedOption' = [q |-> currentQuestionIndex, o |-> o]
            /\ isAnswered' = TRUE
            /\ score' = ScoreAfterSelect(CurrentOptions[o])
            /\ answeredSoFar' = answeredSoFar + 1
            /\ lastEvent' = NoEvent
            /\ UNCHANGED <<questions, currentQuestionIndex, quizStarted, quizFinished>>
            /\ Render
    /\ UNCHANGED <<busyVars, fileVars, callVars, storeVars, error, gatewayVars>>

\* Mutant: the button is always there.
NextShown_Always == TRUE

\* Line 463: the Next/Finish button is rendered.
NextShown == isAnswered

\* Mutant: the last question counts as having a successor.
HasNextQuestion_OffByOne == currentQuestionIndex < Len(questions)

\* Line 336: the current question is not the last one.
HasNextQuestion == currentQuestionIndex < Len(questions) - 1

\* Mutant: the selection of the question left behind is kept.
SelectionAfterAdvance_Keep == selectedOption

\* Line 338: the selection shown for the next question.
SelectionAfterAdvance == NoOption

\* Lines 335-343, from the button rendered only when isAnswered (463-475).
HandleNextQuestion ==
    /\ Screen = "quiz"
    /\ NextShown
    /\ IF HasNextQuestion
       THEN /\ currentQuestionIndex' = currentQuestionIndex + 1
            /\ selectedOption' = SelectionAfterAdvance
            /\ isAnswered' = FALSE
            /\ UNCHANGED quizFinished
       ELSE /\ quizFinished' = TRUE
            /\ UNCHANGED <<currentQuestionIndex, selectedOption, isAnswered>>
    /\ lastEvent' = [NoEvent EXCEPT !.op = "advance"]
    /\ UNCHANGED <<questions, score, quizStarted, answeredSoFar, busyVars, fileVars,
                   callVars, storeVars, error, gatewayVars>>
    /\ Render

---------------------------------------------------------------------------
\* The session.

UpIdle == [pc |-> "idle"]
GenIdle == [pc |-> "idle"]

\* Lines 55-69: the state after the first render.
Init ==
    /\ selectedFiles = << >>
    /\ vectorStoreId = NoStore
    /\ questions = << >>
    /\ currentQuestionIndex = 0
    /\ selectedOption = NoOption
    /\ isAnswered = FALSE
    /\ score = 0
    /\ isLoading = FALSE
    /\ isUploading = FALSE
    /\ error = NoError
    /\ quizStarted = FALSE
    /\ quizFinished = FALSE
    /\ shuffledOptions = << >>
    /\ calls = {}
    /\ nextCall = 1
    /\ nextFileId = 1
    /\ answeredSoFar = 0
    /\ lastEvent = NoEvent
    /\ storeDocuments = << >>
    /\ up = UpIdle
    /\ gen = GenIdle

Next ==
    \/ \E picked \in FilePicks : HandleFileChange(picked)
    \/ \E fileId \in 1..MaxFileId : RemoveFile(fileId)
    \/ HandleStartQuiz
    \/ \E c \in calls : GatewayUploadResponds(c)
    \/ \E c \in calls : HandleStartQuizAfterUpload(c)
    \/ \E c \in calls : GatewayChatResponds(c)
    \/ \E c \in calls : FetchQuizSettled(c)
    \/ HandleFetchAndContinueQuiz
    \/ HandleRestartQuizFromFiles
    \/ HandleUploadNewFiles
    \/ \E o \in 1..MaxOptions : HandleOptionSelect(o)
    \/ HandleNextQuestion

Spec == Init /\ [][Next]_vars

---------------------------------------------------------------------------
\* POST /api/upload (unnamed/part_000, lines 173-435).

\* Line 209.
MaxFileCount == 10
\* Lines 179, 181.
MAX_FILE_SIZE == 20 * 1024 * 1024
\* Mutant: the total is limited to half of what ten full files take.
MAX_TOTAL_SIZE_Half == 100 * 1024 * 1024
MAX_TOTAL_SIZE == 200 * 1024 * 1024

\* File names are sequences of characters.
PdfSuffix == <<".", "p", "d", "f">>
Lower(ch) ==
    CASE ch = "P" -> "p" [] ch = "D" -> "d" [] ch = "F" -> "f" [] ch = "B" -> "b"
      [] OTHER -> ch
ToLowerCase(name) == [i \in 1..Len(name) |-> Lower(name[i])]
EndsWith(name, suffix) ==
    /\ Len(name) >= Len(suffix)
    /\ SubSeq(name, Len(name) - Len(suffix) + 1, Len(name)) = suffix

File(name, size) == [name |-> name, size |-> size]

\* Lines 223-251: the first file that fails its check, in batch order; each
\* file is checked for its type and then for its size.
RECURSIVE FirstFileError(_)
FirstFileError(files) ==
    IF files = << >> THEN "ok"
    ELSE IF ~EndsWith(ToLowerCase(Head(files).name), PdfSuffix) THEN "not_pdf"
    ELSE IF Head(files).size > MAX_FILE_SIZE THEN "file_too_large"
    ELSE FirstFileError(Tail(files))

RECURSIVE TotalSize(_)
TotalSize(files) ==
    IF files = << >> THEN 0 ELSE Head(files).size + TotalSize(Tail(files))

\* Mutant: the count check is missing.
ValidateBatch_NoCount(files) ==
    IF Len(files) = 0 THEN "no_files"
    ELSE IF FirstFileError(files) # "ok" THEN FirstFileError(files)
    ELSE IF TotalSize(files) > MAX_TOTAL_SIZE THEN "total_too_large"
    ELSE "ok"

\* Lines 195-264: the checks made before anything is sent to the provider.
ValidateBatch(files) ==
    IF Len(files) = 0 THEN "no_files"
    ELSE IF Len(files) > MaxFileCount THEN "too_many_files"
    ELSE IF FirstFileError(files) # "ok" THEN FirstFileError(files)
    ELSE IF TotalSize(files) > MAX_TOTAL_SIZE THEN "total_too_large"
    ELSE "ok"

\* What the provider may throw: an API error with its HTTP status.  The
\* flags say what its message contains.
ApiError(status) == [hasStatus |-> TRUE, status |-> status, tooLarge |-> FALSE, entity |-> FALSE]
\* Lines 290-292: the error that replaces a failed file upload.
PlainError == [hasStatus |-> FALSE, status |-> 0, tooLarge |-> FALSE, entity |-> FALSE]
ProviderErrors == {ApiError(500), ApiError(429), ApiError(413)}
NoErrorThrown == [hasStatus |-> FALSE, status |-> -1, tooLarge |-> FALSE, entity |-> FALSE]

UpResponse(status, kind, store) == [status |-> status, kind |-> kind, vectorStoreId |-> store]
NoUpResponse == UpResponse(0, "none", NoStore)

\* Lines 347-402: the status the catch block answers with.
CatchStatus(err) ==
    LET replaced == err.hasStatus /\ (err.status = 413 \/ err.tooLarge)
        statusCode == IF ~err.hasStatus THEN 500
                      ELSE IF replaced THEN 400
                      ELSE err.status
        entity == IF replaced THEN FALSE ELSE err.entity
    IN  IF entity \/ statusCode = 413 THEN 400 ELSE statusCode

CatchResponse(err) == UpResponse(CatchStatus(err), "error", NoStore)

Remote(op, arg) == [op |-> op, arg |-> arg]

\* Mutant: a failed deletion ends the loop over the files.
AfterFileDelete_StopOnFailure(i, n, ok) ==
    IF ok /\ i < n THEN [pc |-> "cleanupFiles", idx |-> i + 1]
    ELSE [pc |-> "cleanupStore", idx |-> 0]

\* Lines 421-427: after the deletion of the i-th of n uploaded files, failed
\* or not, the loop goes on to the next file and then to the store.
AfterFileDelete(i, n, ok) ==
    IF i < n THEN [pc |-> "cleanupFiles", idx |-> i + 1]
    ELSE [pc |-> "cleanupStore", idx |-> 0]

\* Line 419: cleanupResources is entered.
CleanupEntry(fileIds) ==
    IF Len(fileIds) = 0 THEN [pc |-> "cleanupStore", idx |-> 0]
    ELSE [pc |-> "cleanupFiles", idx |-> 1]

\* A request as it arrives.  remote is the list of provider calls made so
\* far, delFailed says that some deletion of the rollback has failed, cause
\* is why the rollback runs, pending is what follows it.
UploadRequest(files) ==
    [pc |-> "received", files |-> files, idx |-> 0, store |-> NoStore,
     uploadedFileIds |-> << >>, remote |-> << >>, delFailed |-> FALSE,
     cause |-> "none", pendingThrow |-> NoErrorThrown, pendingResponse |-> NoUpResponse,
     batchStatus |-> "none", response |-> NoUpResponse]

\* The batches posted: n PDF files of one size, the smallest or the largest
\* accepted, one of them replaced by a file of any kind.
LowerPdf == <<"a", ".", "p", "d", "f">>
UpperPdf == <<"B", ".", "P", "D", "F">>
TextName == <<"n", ".", "t", "x", "t">>
BareName == <<"p", "d", "f">>
FileNames == {LowerPdf, UpperPdf, TextName, BareName}
FileSizes == {1, MAX_FILE_SIZE, MAX_FILE_SIZE + 1}
FileKinds == {File(n, z) : n \in FileNames, z \in FileSizes}
FullFile == File(LowerPdf, MAX_FILE_SIZE)
SmallFile == File(LowerPdf, 1)
Batch(n, p, f, rest) == [i \in 1..n |-> IF i = p THEN f ELSE rest]
Batches ==
    {Batch(n, p, f, rest) : n \in 0..(MaxFileCount + MaxExtraFiles), p \in 1..(MaxFileCount + MaxExtraFiles),
                      f \in FileKinds, rest \in {SmallFile, FullFile}}

\* Lines 192-264.
UploadValidate ==
    /\ up.pc = "received"
    /\ up' = IF ValidateBatch(up.files) = "ok"
             THEN [up EXCEPT !.pc = "createStore"]
             ELSE [up EXCEPT !.pc = "done",
                             !.response = UpResponse(400, ValidateBatch(up.files), NoStore)]
    /\ UNCHANGED <<pageVars, gen>>

\* Lines 267-273; a throw goes to the catch of line 347.
UploadCreateStore ==
    /\ up.pc = "createStore"
    /\ \E err \in ProviderErrors \cup {NoErrorThrown} :
          up' = IF err = NoErrorThrown
                THEN [up EXCEPT !.pc = "uploadFiles", !.idx = 1, !.store = 1,
                                !.remote = Append(@, Remote("vectorStores.create", 0))]
                ELSE [up EXCEPT !.pc = "done", !.cause = "create_threw",
                                !.remote = Append(@, Remote("vectorStores.create", 0)),
                                !.response = CatchResponse(err)]
    /\ UNCHANGED <<pageVars, gen>>

\* Mutant: the loop over the files ends one file early.
AfterFileCreate_SkipLast(i, n) ==
    IF i < n - 1 THEN [pc |-> "uploadFiles", idx |-> i + 1]
    ELSE [pc |-> "attach", idx |-> 0]

\* Lines 279-294: after the upload of the i-th of n files the loop goes on
\* to the next file, and after the last one to the attach of line 297.
AfterFileCreate(i, n) ==
    IF i < n THEN [pc |-> "uploadFiles", idx |-> i + 1]
    ELSE [pc |-> "attach", idx |-> 0]

\* Lines 279-294: one round of the loop; the id of the i-th file is i.  A
\* failed upload is rethrown as a plain Error and caught at line 342.
UploadFileCreate ==
    /\ up.pc = "uploadFiles"
    /\ \E ok \in BOOLEAN :
          up' = IF ok
                THEN [up EXCEPT !.uploadedFileIds = Append(@, up.idx),
                                !.remote = Append(@, Remote("files.create", up.idx)),
                                !.idx = AfterFileCreate(up.idx, Len(up.files)).idx,
                                !.pc = AfterFileCreate(up.idx, Len(up.files)).pc]
                ELSE [up EXCEPT !.remote = Append(@, Remote("files.create", up.idx)),
                                !.cause = "file_upload_failed",
                                !.pendingThrow = PlainError,
                                !.pc = CleanupEntry(up.uploadedFileIds).pc,
                                !.idx = CleanupEntry(up.uploadedFileIds).idx]
    /\ UNCHANGED <<pageVars, gen>>

BatchStatuses == {"completed", "failed", "in_progress", "cancelled"}

\* Mutant: every status but "completed" is rolled back.
AttachBranch_RollbackUnlessCompleted(status) ==
    IF status = "completed" THEN "success" ELSE "rollback"

\* Lines 303, 317, 330: the branch taken on the status of the batch.
AttachBranch(status) ==
    IF status = "completed" THEN "success"
    ELSE IF status = "failed" THEN "rollback"
    ELSE "in_progress"

\* Lines 297-341: the batch attach and the branches on its status.
UploadAttach ==
    /\ up.pc = "attach"
    /\ \E err \in ProviderErrors \cup {NoErrorThrown}, status \in BatchStatuses :
          up' = IF err # NoErrorThrown
                THEN [up EXCEPT !.remote = Append(@, Remote("fileBatches.createAndPoll", up.uploadedFileIds)),
                                !.cause = "attach_threw",
                                !.pendingThrow = err,
                                !.pc = CleanupEntry(up.uploadedFileIds).pc,
                                !.idx = CleanupEntry(up.uploadedFileIds).idx]
                ELSE IF AttachBranch(status) = "success"
                THEN [up EXCEPT !.remote = Append(@, Remote("fileBatches.createAndPoll", up.uploadedFileIds)),
                                !.batchStatus = status,
                                !.pc = "done",
                                !.response = UpResponse(200, "completed", up.store)]
                ELSE IF AttachBranch(status) = "rollback"
                THEN [up EXCEPT !.remote = Append(@, Remote("fileBatches.createAndPoll", up.uploadedFileIds)),
                                !.batchStatus = status,
                                !.cause = "batch_failed",
                                !.pendingResponse = UpResponse(500, "batch_failed", NoStore),
                                !.pc = CleanupEntry(up.uploadedFileIds).pc,
                                !.idx = CleanupEntry(up.uploadedFileIds).idx]
                ELSE [up EXCEPT !.remote = Append(@, Remote("fileBatches.createAndPoll", up.uploadedFileIds)),
                                !.batchStatus = status,
                                !.pc = "done",
                                !.response = UpResponse(200, "in_progress", up.store)]
    /\ UNCHANGED <<pageVars, gen>>

\* Lines 421-427: one round of the loop of cleanupResources.
CleanupDeleteFile ==
    /\ up.pc = "cleanupFiles"
    /\ \E ok \in BOOLEAN :
          up' = [up EXCEPT !.remote = Append(@, Remote("files.del", up.uploadedFileIds[up.idx])),
                           !.delFailed = @ \/ ~ok,
                           !.pc = AfterFileDelete(up.idx, Len(up.uploadedFileIds), ok).pc,
                           !.idx = AfterFileDelete(up.idx, Len(up.uploadedFileIds), ok).idx]
    /\ UNCHANGED <<pageVars, gen>>

\* Lines 430-434, and what follows cleanupResources: the response of lines
\* 319-329, or the rethrow of line 345 into the catch of line 347.
CleanupDeleteStore ==
    /\ up.pc = "cleanupStore"
    /\ \E ok \in BOOLEAN :
          up' = [up EXCEPT !.remote = Append(@, Remote("vectorStores.del", up.store)),
                           !.delFailed = @ \/ ~ok,
                           !.pc = "done",
                           !.response = IF up.pendingThrow # NoErrorThrown
                                        THEN CatchResponse(up.pendingThrow)
                                        ELSE up.pendingResponse]
    /\ UNCHANGED <<pageVars, gen>>

InitUpload ==
    /\ selectedFiles = << >>
    /\ vectorStoreId = NoStore
    /\ questions = << >>
    /\ currentQuestionIndex = 0
    /\ selectedOption = NoOption
    /\ isAnswered = FALSE
    /\ score = 0
    /\ isLoading = FALSE
    /\ isUploading = FALSE
    /\ error = NoError
    /\ quizStarted = FALSE
    /\ quizFinished = FALSE
    /\ shuffledOptions = << >>
    /\ calls = {}
    /\ nextCall = 1
    /\ nextFileId = 1
    /\ answeredSoFar = 0
    /\ lastEvent = NoEvent
    /\ storeDocuments = << >>
    /\ up \in {UploadRequest(b) : b \in Batches}
    /\ gen = GenIdle

NextUpload ==
    \/ UploadValidate
    \/ UploadCreateStore
    \/ UploadFileCreate
    \/ UploadAttach
    \/ CleanupDeleteFile
    \/ CleanupDeleteStore

SpecUpload == InitUpload /\ [][NextUpload]_vars

---------------------------------------------------------------------------
\* api/chat/route.ts: POST /api/chat, lines 34-284.

\* The existingQuestions member of the body: an array, absent, or anything else.
JsArray(items) == [isArray |-> TRUE, undefined |-> FALSE, items |-> items]
JsUndefined == [isArray |-> FALSE, undefined |-> TRUE, items |-> << >>]
JsOther == [isArray |-> FALSE, undefined |-> FALSE, items |-> << >>]

\* Line 37: the destructuring default applies to an absent member only.
ExistingOrDefault(v) == IF v.undefined THEN JsArray(<< >>) ELSE v

ChatBody(store, existing) == [vectorStoreId |-> store, existingQuestions |-> existing]
ChatBodies ==
    {ChatBody(store, existing) :
        store \in {NoStore, 1},
        existing \in {JsUndefined, JsOther, JsArray(<< >>), JsArray(<<"q1">>)}}

\* Mutant: existingQuestions is taken as it comes.
BodyError_NoArrayCheck(body) ==
    IF body.vectorStoreId = NoStore THEN "missing_store" ELSE "ok"

\* Lines 39-63: the checks made on the body alone.
BodyError(body) ==
    IF body.vectorStoreId = NoStore THEN "missing_store"
    ELSE IF ~ExistingOrDefault(body.existingQuestions).isArray THEN "bad_existing"
    ELSE "ok"

\* What is thrown inside the handler: an API error of the provider with its
\* HTTP status, a plain Error, or the ZodError of QuizSchema.parse.
ChatApiError(status) == [kind |-> "api", status |-> status]
ChatPlainError == [kind |-> "error", status |-> 0]
ZodError == [kind |-> "zod", status |-> 0]
ChatProviderErrors == {ChatApiError(500), ChatApiError(429)}
NothingThrown == [kind |-> "none", status |-> 0]

ChatResponse(status, kind, quiz) == [status |-> status, kind |-> kind, quiz |-> quiz]
NoChatResponse == ChatResponse(0, "none", << >>)

\* Lines 237-283: the answer of the catch block.
ChatCatchResponse(err) ==
    IF err.kind = "zod" THEN ChatResponse(400, "invalid_quiz", << >>)
    ELSE IF err.kind = "api" THEN ChatResponse(err.status, "error", << >>)
    ELSE ChatResponse(500, "error", << >>)

NoParsed == [present |-> FALSE, quiz |-> << >>]
Parsed(quiz) == [present |-> TRUE, quiz |-> quiz]

\* A request as it arrives.  remote is the list of provider calls made so
\* far; store and storeFiles are what the provider said of the store;
\* assistant and thread are "none", "live" or "deleted".
ChatRequest(body) ==
    [pc |-> "received", body |-> body, remote |-> << >>,
     store |-> "unchecked", storeFiles |-> -1,
     assistant |-> "none", thread |-> "none", runStatus |-> "none",
     parsedResponse |-> NoParsed, delFailed |-> FALSE, response |-> NoChatResponse]

\* The handler ends with this answer.
ChatDone(r, op, response) ==
    [r EXCEPT !.pc = "done", !.remote = IF op = "" THEN @ ELSE Append(@, op),
              !.response = response]

\* The handler goes on after this provider call.
ChatStep(r, op, pc) == [r EXCEPT !.pc = pc, !.remote = Append(@, op)]

\* Lines 36-63.
ChatCheckBody ==
    /\ gen.pc = "received"
    /\ gen' = IF BodyError(gen.body) = "ok"
              THEN [gen EXCEPT !.pc = "retrieveStore"]
              ELSE ChatDone(gen, "", ChatResponse(400, BodyError(gen.body), << >>))
    /\ UNCHANGED <<pageVars, up>>

\* Lines 66-84: any throw of the lookup is answered 404.
ChatRetrieveStore ==
    /\ gen.pc = "retrieveStore"
    /\ \E found \in BOOLEAN :
          gen' = IF found
                 THEN [ChatStep(gen, "vectorStores.retrieve", "listFiles") EXCEPT !.store = "found"]
                 ELSE [ChatDone(gen, "vectorStores.retrieve", ChatResponse(404, "not_found", << >>))
                          EXCEPT !.store = "missing"]
    /\ UNCHANGED <<pageVars, up>>

\* Lines 87-99.
ChatListFiles ==
    /\ gen.pc = "listFiles"
    /\ \E err \in ChatProviderErrors \cup {NothingThrown}, n \in 0..1 :
          gen' = IF err # NothingThrown
                 THEN ChatDone(gen, "vectorStores.files.list", ChatCatchResponse(err))
                 ELSE IF n = 0
                 THEN [ChatDone(gen, "vectorStores.files.list", ChatResponse(400, "no_files", << >>))
                          EXCEPT !.storeFiles = 0]
                 ELSE [ChatStep(gen, "vectorStores.files.list", "createAssistant")
                          EXCEPT !.storeFiles = n]
    /\ UNCHANGED <<pageVars, up>>

\* Lines 102-121.
ChatCreateAssistant ==
    /\ gen.pc = "createAssistant"
    /\ \E err \in ChatProviderErrors \cup {NothingThrown} :
          gen' = IF err # NothingThrown
                 THEN ChatDone(gen, "assistants.create", ChatCatchResponse(err))
                 ELSE [ChatStep(gen, "assistants.create", "createThread")
                          EXCEPT !.assistant = "live"]
    /\ UNCHANGED <<pageVars, up>>

\* Line 124.
ChatCreateThread ==
    /\ gen.pc = "createThread"
    /\ \E err \in ChatProviderErrors \cup {NothingThrown} :
          gen' = IF err # NothingThrown
                 THEN ChatDone(gen, "threads.create", ChatCatchResponse(err))
                 ELSE [ChatStep(gen, "threads.create", "addMessage") EXCEPT !.thread = "live"]
    /\ UNCHANGED <<pageVars, up>>

\* Lines 155-158.
ChatAddMessage ==
    /\ gen.pc = "addMessage"
    /\ \E err \in ChatProviderErrors \cup {NothingThrown} :
          gen' = IF err # NothingThrown
                 THEN ChatDone(gen, "messages.create", ChatCatchResponse(err))
                 ELSE ChatStep(gen, "messages.create", "run")
    /\ UNCHANGED <<pageVars, up>>

RunStatuses == {"completed", "failed", "expired"}

\* Lines 161-165 and 230: the run and the branch on its status.
ChatRun ==
    /\ gen.pc = "run"
    /\ \E err \in ChatProviderErrors \cup {NothingThrown}, status \in RunStatuses :
          gen' = IF err # NothingThrown
                 THEN ChatDone(gen, "runs.createAndPoll", ChatCatchResponse(err))
                 ELSE [ChatStep(gen, "runs.createAndPoll",
                                IF status = "completed" THEN "readMessages" ELSE "deleteAssistant")
                          EXCEPT !.runStatus = status]
    /\ UNCHANGED <<pageVars, up>>

\* Lines 167-191: the assistant's message is read and parsed as JSON.
ChatReadMessages ==
    /\ gen.pc = "readMessages"
    /\ \/ \E err \in ChatProviderErrors \cup {ChatPlainError} :
             \* messages.list throws, or line 173: no assistant message
             gen' = ChatDone(gen, "messages.list", ChatCatchResponse(err))
       \/ \E quiz \in ProviderQuizzes :
             gen' = [ChatStep(gen, "messages.list", "validate")
                        EXCEPT !.parsedResponse = Parsed(quiz)]
       \/ \* JSON.parse throws: line 190
          gen' = ChatStep(gen, "messages.list", "fallback")
    /\ UNCHANGED <<pageVars, up>>

\* Lines 194-217: the structured-output fallback.
ChatFallback ==
    /\ gen.pc = "fallback"
    /\ \/ \E err \in ChatProviderErrors \cup {ChatPlainError} :
             \* the completion throws, or line 214: nothing parsed
             gen' = ChatDone(gen, "chat.completions.parse", ChatCatchResponse(err))
       \/ \E quiz \in ProviderQuizzes :
             gen' = [ChatStep(gen, "chat.completions.parse", "validate")
                        EXCEPT !.parsedResponse = Parsed(quiz)]
    /\ UNCHANGED <<pageVars, up>>

\* Line 221: QuizSchema.parse; its ZodError goes to the catch of line 237.
ChatValidateQuiz ==
    /\ gen.pc = "validate"
    /\ gen' = IF QuizSchema(gen.parsedResponse.quiz)
              THEN [gen EXCEPT !.pc = "deleteAssistant"]
              ELSE ChatDone(gen, "", ChatCatchResponse(ZodError))
    /\ UNCHANGED <<pageVars, up>>

\* Lines 224 and 232: a throw of the deletion goes to the catch of line 237.
ChatDeleteAssistant ==
    /\ gen.pc = "deleteAssistant"
    /\ \E err \in ChatProviderErrors \cup {NothingThrown} :
          gen' = IF err # NothingThrown
                 THEN [ChatDone(gen, "assistants.del", ChatCatchResponse(err))
                          EXCEPT !.delFailed = TRUE]
                 ELSE [ChatStep(gen, "assistants.del", "deleteThread")
                          EXCEPT !.assistant = "deleted"]
    /\ UNCHANGED <<pageVars, up>>

\* Lines 225-229 and 233-235: the thread is deleted, then the validated quiz
\* is returned or the failed run is thrown.
ChatDeleteThread ==
    /\ gen.pc = "deleteThread"
    /\ \E err \in ChatProviderErrors \cup {NothingThrown} :
          gen' = IF err # NothingThrown
                 THEN [ChatDone(gen, "threads.del", ChatCatchResponse(err))
                          EXCEPT !.delFailed = TRUE]
                 ELSE [ChatDone(gen, "threads.del",
                                IF gen.runStatus = "completed"
                                THEN ChatResponse(200, "ok", gen.parsedResponse.quiz)
                                ELSE ChatCatchResponse(ChatPlainError))
                          EXCEPT !.thread = "deleted"]
    /\ UNCHANGED <<pageVars, up>>

InitChat ==
    /\ selectedFiles = << >>
    /\ vectorStoreId = NoStore
    /\ questions = << >>
    /\ currentQuestionIndex = 0
    /\ selectedOption = NoOption
    /\ isAnswered = FALSE
    /\ score = 0
    /\ isLoading = FALSE
    /\ isUploading = FALSE
    /\ error = NoError
    /\ quizStarted = FALSE
    /\ quizFinished = FALSE
    /\ shuffledOptions = << >>
    /\ calls = {}
    /\ nextCall = 1
    /\ nextFileId = 1
    /\ answeredSoFar = 0
    /\ lastEvent = NoEvent
    /\ storeDocuments = << >>
    /\ up = UpIdle
    /\ gen \in {ChatRequest(b) : b \in ChatBodies}

NextChat ==
    \/ ChatCheckBody
    \/ ChatRetrieveStore
    \/ ChatListFiles
    \/ ChatCreateAssistant
    \/ ChatCreateThread
    \/ ChatAddMessage
    \/ ChatRun
    \/ ChatReadMessages
    \/ ChatFallback
    \/ ChatValidateQuiz
    \/ ChatDeleteAssistant
    \/ ChatDeleteThread

SpecChat == InitChat /\ [][NextChat]_vars

---------------------------------------------------------------------------
\* Properties of the session.

\* The call c is outstanding with its response in hand, and this step runs
\* the continuation that consumes it (the transaction is over afterwards).
Settles(c) == c.status = "responded" /\ \A d \in calls' : d.id # c.id

CorrectOptions(q) == {i \in 1..Len(q.options) : q.options[i].correct}

\* C1: select-option invoked while the current question is already answered
\* is a no-op, whatever option is chosen: score, recorded selection and
\* answered flag keep their values.
C1_ReselectIsNoOp ==
    [][\A o \in 1..MaxOptions :
          (isAnswered /\ HandleOptionSelect(o))
              => UNCHANGED <<score, selectedOption, isAnswered>>]_vars

C1_Witness ==
    /\ lastEvent.op = "reselect"
    /\ isAnswered
    /\ selectedOption # NoOption
    /\ score = 1

\* C2, the state part: the score never exceeds the number of questions
\* answered so far, which never exceeds the length of the question list.
C2_ScoreBounded == score <= answeredSoFar /\ answeredSoFar <= Len(questions)

\* C2, the step part: the score changes only by +1, in a selection of a
\* correct option on a question not yet answered, or back to 0 in a reset
\* (restart-from-files, upload-new-files), which empties the question list.
C2_ScoreStep ==
    score' # score =>
        \/ /\ score' = score + 1
           /\ Screen = "quiz"
           /\ ~isAnswered /\ isAnswered'
           /\ questions' = questions
           /\ currentQuestionIndex' = currentQuestionIndex
           /\ selectedOption'.o \in CorrectOptions(questions[currentQuestionIndex + 1])
        \/ /\ score' = 0
           /\ Screen \in {"quiz", "finished"}
           /\ questions' = << >>

\* C2: between resets the score never decreases, grows by exactly 1 and only
\* on the first, correct selection of a question, and stays within the count
\* of answered questions.
C2_ScoreMonotone == [](C2_ScoreBounded) /\ [][C2_ScoreStep]_vars

C2_Witness ==
    /\ Screen = "quiz"
    /\ isAnswered
    /\ score = 2
    /\ answeredSoFar = 3

\* C3: the result of a call that was in flight when the user chose "upload
\* new files" changes nothing of the new session when it arrives.
C3_StaleResultDiscarded ==
    [][\A c \in calls :
          (c.stale /\ Settles(c))
              => UNCHANGED <<questions, currentQuestionIndex, score, quizStarted,
                             quizFinished, error, vectorStoreId>>]_vars

\* C4: every question on the quiz screen has 2 to 4 options, exactly one of
\* them correct.
C4_OneCorrectOption ==
    Screen = "quiz" =>
        \A q \in Range(questions) :
            /\ Len(q.options) >= MinOptions
            /\ Len(q.options) <= MaxOptions
            /\ Cardinality(CorrectOptions(q)) = 1

\* C5: a successful "more questions" response with k >= 1 questions appends
\* them to the unchanged list, moves to the first new question, clears
\* selection, answered flag and error, keeps the score and shows the quiz.
C5_MoreQuestionsAppends ==
    [][\A c \in calls :
          (Settles(c) /\ c.trigger = "more" /\ ResponseOk(c.resp) /\ Len(c.resp.quiz) >= 1)
              => /\ questions' = questions \o c.resp.quiz
                 /\ Len(questions') = Len(questions) + Len(c.resp.quiz)
                 /\ currentQuestionIndex' = Len(questions)
                 /\ selectedOption' = NoOption
                 /\ ~isAnswered'
                 /\ error' = NoError
                 /\ score' = score
                 /\ Phase' = "Answering"]_vars

C5_Witness ==
    /\ lastEvent = [op |-> "settled", trigger |-> "more", ok |-> TRUE, stale |-> FALSE]
    /\ Len(questions) = 3
    /\ currentQuestionIndex = 1
    /\ score = 1

\* C6: a successful "restart from files" leaves exactly the returned
\* questions, index 0, score 0, no selection, not answered, and the quiz on
\* screen.
C6_RestartReplaces ==
    [][\A c \in calls :
          (Settles(c) /\ c.trigger = "restart" /\ ResponseOk(c.resp) /\ Len(c.resp.quiz) >= 1)
              => /\ questions' = c.resp.quiz
                 /\ Len(questions') = Len(c.resp.quiz)
                 /\ currentQuestionIndex' = 0
                 /\ score' = 0
                 /\ selectedOption' = NoOption
                 /\ ~isAnswered'
                 /\ Phase' = "Answering"]_vars

C6_Witness ==
    /\ lastEvent = [op |-> "settled", trigger |-> "restart", ok |-> TRUE, stale |-> FALSE]
    /\ Len(questions) = 1
    /\ score = 0
    /\ Screen = "quiz"

\* C7: a failed gateway call of start-quiz, more-questions or restart leaves
\* the session as it was before the trigger (question list, index,
\* selection, answered flag, score, phase), with the error message set.
C7_FailureRestoresSession ==
    [][\A c \in calls :
          (Settles(c) /\ ~c.stale /\ ~ResponseOk(c.resp))
              => SessionView' = c.pre /\ error' # NoError]_vars

\* C8: at most one gateway call is outstanding, and while one is, the
\* trigger buttons of the screen shown are disabled.
C8_OneCallOutstanding ==
    /\ Cardinality(calls) <= 1
    /\ calls # {} =>
          /\ Screen = "upload" => StartDisabled
          /\ Screen = "finished" => ContinueDisabled
          /\ Screen # "quiz"

C8_Witness ==
    /\ Cardinality(calls) = 1
    /\ Screen = "finished"
    /\ ContinueDisabled
    /\ nextCall = 3

---------------------------------------------------------------------------
\* Properties of POST /api/upload.

\* The arguments of the provider calls of one kind, in the order made.
RemoteArgs(op) ==
    LET made == SelectSeq(up.remote, LAMBDA r : r.op = op)
    IN  [i \in 1..Len(made) |-> made[i].arg]

\* The batch breaks a limit: no file, more than the maximum count, a file
\* over the per-file limit, or a total over the aggregate limit.
BreaksLimit(files) ==
    \/ Len(files) = 0
    \/ Len(files) > MaxFileCount
    \/ \E i \in 1..Len(files) : files[i].size > MAX_FILE_SIZE
    \/ TotalSize(files) > MAX_TOTAL_SIZE

\* The request was refused with 400 before any provider call.
RefusedUnsent ==
    /\ up.pc \in {"received", "done"}
    /\ up.remote = << >>
    /\ up.pc = "done" => up.response.status = 400

\* C9, as stated: a batch with no file, more than 10 files, a file whose
\* name does not end in .pdf, a file over the per-file limit or a total over
\* the aggregate limit is answered 400 and no provider call is made.
C9_InvalidBatchUnsent_Stated ==
    (\/ BreaksLimit(up.files)
     \/ \E i \in 1..Len(up.files) : ~EndsWith(up.files[i].name, PdfSuffix))
        => RefusedUnsent

\* C9, amended: the same, the name being compared in lower case, so that a
\* name ending in .PDF counts as a PDF.
C9_InvalidBatchUnsent ==
    (\/ BreaksLimit(up.files)
     \/ \E i \in 1..Len(up.files) : ~EndsWith(ToLowerCase(up.files[i].name), PdfSuffix))
        => RefusedUnsent

C9_Witness ==
    /\ up.pc = "done"
    /\ Len(up.files) = MaxFileCount + 1
    /\ \A i \in 1..Len(up.files) : up.files[i] = SmallFile
    /\ up.response = UpResponse(400, "too_many_files", NoStore)
    /\ up.remote = << >>

\* C10: when a document upload fails or the batch attach ends as failed,
\* the gateway tries to delete every file id uploaded so far and the store,
\* going on past a failed deletion, and only then answers with the error
\* of that failure; a failed deletion changes nothing of the answer.
C10_RollbackBeforeError ==
    /\ up.response # NoUpResponse => up.pc = "done"
    /\ (up.pc = "done" /\ up.cause \in {"file_upload_failed", "batch_failed"}) =>
          /\ RemoteArgs("files.del") = up.uploadedFileIds
          /\ RemoteArgs("vectorStores.del") = <<up.store>>
          /\ up.response.status = 500
          /\ up.response.kind = IF up.cause = "batch_failed" THEN "batch_failed" ELSE "error"

C10_Witness ==
    /\ up.pc = "done"
    /\ up.cause = "file_upload_failed"
    /\ up.delFailed
    /\ Len(up.uploadedFileIds) = 2
    /\ RemoteArgs("files.del") = <<1, 2>>
    /\ up.response.status = 500

---------------------------------------------------------------------------
\* POST /api/chat: transient resources and preconditions.

RemoteOps(r) == {r.remote[i] : i \in 1..Len(r.remote)}

\* C11: a request that created an assistant and/or a thread has deleted both
\* when its response is sent, whatever path it took.
C11_TransientsDeleted ==
    gen.pc = "done" => gen.assistant # "live" /\ gen.thread # "live"

\* C12: a failure while deleting the assistant or the thread is not
\* surfaced: a request whose question set passed validation answers 200
\* with that question set.
C12_CleanupFailureHidden ==
    (gen.pc = "done" /\ gen.parsedResponse.present /\ QuizSchema(gen.parsedResponse.quiz))
        => gen.response = ChatResponse(200, "ok", gen.parsedResponse.quiz)

NoTransients(r) ==
    /\ r.assistant = "none"
    /\ r.thread = "none"
    /\ RemoteOps(r) \cap {"assistants.create", "threads.create", "runs.createAndPoll"} = {}

---------------------------------------------------------------------------
\* Properties of the session, continued.

\* A step of the quiz screen that moves the index or ends the quiz over an
\* unchanged question list.
AdvanceStep ==
    /\ Screen = "quiz"
    /\ questions' = questions
    /\ currentQuestionIndex' # currentQuestionIndex \/ quizFinished' # quizFinished

\* C13: advance happens only on an answered question; at the last index it
\* moves the phase to Finished and keeps the index; at any other index it
\* adds exactly 1 to the index and clears selection and answered flag; it
\* never changes the score or the question list.
C13_Advance ==
    [][(AdvanceStep \/ HandleNextQuestion)
          => /\ isAnswered
             /\ IF currentQuestionIndex = Len(questions) - 1
                THEN /\ Phase' = "Finished"
                     /\ currentQuestionIndex' = currentQuestionIndex
                ELSE /\ currentQuestionIndex' = currentQuestionIndex + 1
                     /\ selectedOption' = NoOption
                     /\ ~isAnswered'
                     /\ Phase' = "Answering"
             /\ score' = score
             /\ questions' = questions]_vars

C13_Witness ==
    /\ lastEvent.op = "advance"
    /\ Screen = "quiz"
    /\ currentQuestionIndex = 1
    /\ ~isAnswered
    /\ selectedOption = NoOption
    /\ score = 1

\* C14: "upload new files", wherever it can be triggered, leaves questions
\* empty, index 0, no selection, not answered, score 0, no error, no store
\* handle, no staged document, and the phase CollectingFiles.
C14_UploadNewFilesResets ==
    [][HandleUploadNewFiles
          => /\ questions' = << >>
             /\ currentQuestionIndex' = 0
             /\ selectedOption' = NoOption
             /\ ~isAnswered'
             /\ score' = 0
             /\ error' = NoError
             /\ vectorStoreId' = NoStore
             /\ selectedFiles' = << >>
             /\ Phase' = "CollectingFiles"]_vars

\* C15: a generation request follows an upload only when the batch attach
\* of that upload ended as "completed".
C15_GenerateOnlyAfterCompleted ==
    [][\A c \in calls :
          (c.kind = "upload" /\ c.status = "responded" /\ c.resp.batchStatus # "completed")
              => /\ \A d \in calls' : ~(d.kind = "chat" /\ d.id = c.id)
                 /\ Phase' # "Generating"]_vars

AllStatus(files, status) == \A i \in 1..Len(files) : files[i].status = status

\* C17: when the upload of start-quiz fails the session is in
\* CollectingFiles with the error set and every staged document marked
\* "error"; the store handle is unchanged and no generation request is made.
C17_UploadFailureStays ==
    [][\A c \in calls :
          (c.kind = "upload" /\ Settles(c) /\ ~ResponseOk(c.resp))
              => /\ Phase' = "CollectingFiles"
                 /\ error' # NoError
                 /\ AllStatus(selectedFiles', "error")
                 /\ vectorStoreId' = vectorStoreId
                 /\ calls' = {}]_vars

C17_Witness ==
    /\ lastEvent = [op |-> "settled", trigger |-> "start", ok |-> FALSE, stale |-> FALSE]
    /\ Len(selectedFiles) = 2
    /\ AllStatus(selectedFiles, "error")
    /\ error = MsgUploadFailed
    /\ Phase = "CollectingFiles"
    /\ calls = {}

\* C18: a generation response without questions never shows the quiz and
\* always sets an error.  After a fresh request the session is in
\* CollectingFiles with no question; after a continuation the question
\* list, the index and the score are untouched and the screen stays, which
\* is the Finished phase of before the request unless the user has left it.
C18_ZeroQuestions ==
    [][\A c \in calls :
          (c.kind = "chat" /\ Settles(c) /\ ResponseOk(c.resp) /\ Len(c.resp.quiz) = 0)
              => /\ Phase' # "Answering"
                 /\ error' # NoError
                 /\ ~c.isContinuation
                       => Phase' = "CollectingFiles" /\ questions' = << >>
                 /\ c.isContinuation
                       => /\ UNCHANGED <<questions, currentQuestionIndex, score>>
                          /\ Screen' = Screen
                          /\ ~c.stale =>
                                /\ Phase' = c.pre.phase
                                /\ questions' = c.pre.questions
                                /\ currentQuestionIndex' = c.pre.currentQuestionIndex
                                /\ score' = c.pre.score]_vars

C18_Witness ==
    /\ lastEvent = [op |-> "settled", trigger |-> "more", ok |-> FALSE, stale |-> FALSE]
    /\ error = MsgNoNewQuestions
    /\ Phase = "Finished"
    /\ Len(questions) = 2
    /\ score = 1

\* C19: when a "more questions" request fails the session is Finished as
\* before, with the error set and the question list, the index and the
\* score of before the request.
C19_MoreFailureStaysFinished ==
    [][\A c \in calls :
          (c.kind = "chat" /\ Settles(c) /\ c.trigger = "more" /\ ~ResponseOk(c.resp))
              => /\ error' # NoError
                 /\ UNCHANGED <<questions, currentQuestionIndex, score>>
                 /\ Screen' = Screen
                 /\ ~c.stale =>
                       /\ Phase' = "Finished"
                       /\ c.pre.phase = "Finished"
                       /\ questions' = c.pre.questions
                       /\ currentQuestionIndex' = c.pre.currentQuestionIndex
                       /\ score' = c.pre.score]_vars

C19_Witness ==
    /\ lastEvent = [op |-> "settled", trigger |-> "more", ok |-> FALSE, stale |-> FALSE]
    /\ error = MsgStoreNotFound
    /\ Phase = "Finished"
    /\ Len(questions) = 2
    /\ currentQuestionIndex = 1
    /\ score = 2

QuestionTexts(qs) == [i \in 1..Len(qs) |-> qs[i].question]

\* C20: a "more questions" request carries the texts of all the questions
\* of the session at the trigger, in list order; the requests of start-quiz
\* and of restart-from-files carry an empty exclusion list.
C20_ExclusionList ==
    [][\A d \in calls' :
          (d.kind = "chat" /\ \A c \in calls : ~(c.kind = "chat" /\ c.id = d.id))
              => d.existingQuestions =
                    IF d.trigger = "more" THEN QuestionTexts(questions) ELSE << >>]_vars

C20_Witness ==
    \E c \in calls :
        /\ c.kind = "chat"
        /\ c.trigger = "more"
        /\ c.status = "pending"
        /\ c.existingQuestions = <<"q1", "q2", "q3">>

\* C21: the accumulated list never holds two questions with the same text.
C21_NoRepeatedQuestion ==
    \A i, j \in 1..Len(questions) :
        i # j => questions[i].question # questions[j].question

\* The edges of the phase diagram.
StatedEdges ==
    {<<"CollectingFiles", "Uploading">>, <<"Uploading", "Generating">>,
     <<"Generating", "Answering">>, <<"Answering", "Finished">>,
     <<"Finished", "Generating">>}

\* The ways back from a gateway call that failed or brought no question,
\* and start-quiz over documents that are already uploaded.
ReturnEdges ==
    {<<"Uploading", "CollectingFiles">>, <<"Generating", "CollectingFiles">>,
     <<"Generating", "Finished">>}
SkipUploadEdge == <<"CollectingFiles", "Generating">>

ResetEdge == HandleUploadNewFiles /\ Phase' = "CollectingFiles"

\* C22, as stated: the phase changes only along CollectingFiles->Uploading,
\* Uploading->Generating, Generating->Answering, Answering->Finished,
\* Finished->Generating, or by a reset to CollectingFiles.
C22_PhaseEdges_Stated ==
    [][Phase' # Phase => (<<Phase, Phase'>> \in StatedEdges \/ ResetEdge)]_vars

\* C22, amended: besides those edges the phase goes back from Uploading to
\* CollectingFiles and from Generating to CollectingFiles or Finished when
\* the gateway call ends without questions, and start-quiz goes from
\* CollectingFiles straight to Generating exactly when a store handle
\* exists and every staged document is already uploaded; otherwise it
\* passes through Uploading.
C22_PhaseEdges ==
    [][Phase' # Phase =>
          /\ \/ <<Phase, Phase'>> \in StatedEdges \cup ReturnEdges \cup {SkipUploadEdge}
             \/ ResetEdge
          /\ <<Phase, Phase'>> = SkipUploadEdge
                => vectorStoreId # NoStore /\ AllStatus(selectedFiles, "uploaded")
          /\ <<Phase, Phase'>> \in ReturnEdges
                => \E c \in calls : Settles(c) /\ lastEvent' = Completion(c, FALSE)
          /\ <<Phase, Phase'>> = <<"Uploading", "Generating">>
                => \E c \in calls : c.kind = "upload" /\ ResponseOk(c.resp)]_vars

C22_Witness ==
    /\ Phase = "Generating"
    /\ Screen = "upload"
    /\ vectorStoreId # NoStore
    /\ selectedFiles # << >>
    /\ AllStatus(selectedFiles, "uploaded")
    /\ \E c \in calls : c.kind = "chat" /\ c.trigger = "start" /\ c.id = 2

---------------------------------------------------------------------------
\* Properties of POST /api/upload, continued.

\* C23: when the batch attach ends in a status that is neither "completed"
\* nor "failed", the request ends at once with a 200 that carries the store
\* handle and is not the success result, and nothing is rolled back: no
\* file and no store is deleted.
C23_InProgressNoRollback ==
    up.batchStatus \notin {"none", "completed", "failed"}
        => /\ up.pc = "done"
           /\ up.response.status = 200
           /\ up.response.vectorStoreId = up.store
           /\ up.store # NoStore
           /\ up.response # UpResponse(200, "completed", up.store)
           /\ RemoteArgs("files.del") = << >>
           /\ RemoteArgs("vectorStores.del") = << >>

C23_Witness ==
    /\ up.pc = "done"
    /\ up.batchStatus = "cancelled"
    /\ Len(up.uploadedFileIds) = 2
    /\ up.response = UpResponse(200, "in_progress", up.store)
    /\ up.delFailed = FALSE

\* The places of the provider calls of one kind in the list of calls made.
RemotePlaces(op) == {i \in 1..Len(up.remote) : up.remote[i].op = op}

\* C27: a batch that passes validation creates one store, first of all;
\* then uploads its documents one by one in batch order; and issues one
\* batch attach, after the upload of every document has succeeded and with
\* exactly their ids; after a failed upload no attach is issued.
C27_StoreUploadsAttach ==
    LET creates == RemoteArgs("vectorStores.create")
        uploads == RemoteArgs("files.create")
        attaches == RemoteArgs("fileBatches.createAndPoll")
    IN  /\ ValidateBatch(up.files) = "ok" /\ up.pc \notin {"received", "createStore"}
              => Len(creates) = 1
        /\ up.remote # << >> => up.remote[1].op = "vectorStores.create"
        /\ Len(creates) <= 1
        /\ Len(uploads) <= Len(up.files)
        /\ \A i \in 1..Len(uploads) : uploads[i] = i
        /\ \A i \in RemotePlaces("files.create") : (i > 1 /\ i <= Len(up.files) + 1)
        /\ Len(attaches) <= 1
        /\ Len(attaches) = 1
              => /\ Len(uploads) = Len(up.files)
                 /\ up.uploadedFileIds = uploads
                 /\ attaches[1] = up.uploadedFileIds
                 /\ up.cause # "file_upload_failed"
                 /\ RemotePlaces("fileBatches.createAndPoll") = {Len(up.files) + 2}
        /\ up.cause = "file_upload_failed" => attaches = << >>
        /\ up.pc = "done" /\ up.response.status = 200 => Len(attaches) = 1

C27_Witness ==
    /\ up.pc = "done"
    /\ up.response = UpResponse(200, "completed", up.store)
    /\ up.remote = <<Remote("vectorStores.create", 0), Remote("files.create", 1),
                     Remote("files.create", 2), Remote("files.create", 3),
                     Remote("fileBatches.createAndPoll", <<1, 2, 3>>)>>

\* C25: every response of POST /api/upload has status 200, 400 or 500,
\* whatever the provider throws.
C25_UploadStatuses ==
    up.pc = "done" => up.response.status \in {200, 400, 500}

---------------------------------------------------------------------------
\* Properties of POST /api/chat, continued.

\* C24: every response of POST /api/chat has status 200, 400, 404 or 500,
\* whatever the provider throws.
C24_ChatStatuses ==
    gen.pc = "done" => gen.response.status \in {200, 400, 404, 500}

\* 1 to 10 questions, each with a text and 2 to 4 options that have a text.
WellFormedQuiz(quiz) ==
    /\ Len(quiz) >= MinQuestions /\ Len(quiz) <= MaxQuizQuestions
    /\ \A i \in 1..Len(quiz) :
          /\ quiz[i].question # ""
          /\ Len(quiz[i].options) >= MinOptions /\ Len(quiz[i].options) <= MaxOptions
          /\ \A k \in 1..Len(quiz[i].options) : quiz[i].options[k].option # ""

\* C28: a request attempts the fallback generation at most once, and a
\* question set answered with 200 has passed the schema validation,
\* whether it came from the assistant's message or from the fallback.
C28_FallbackOnceValidated ==
    /\ Cardinality({i \in 1..Len(gen.remote) : gen.remote[i] = "chat.completions.parse"}) <= 1
    /\ gen.response.status = 200
          => /\ gen.response.quiz = gen.parsedResponse.quiz
             /\ WellFormedQuiz(gen.response.quiz)

C28_Witness ==
    /\ gen.pc = "done"
    /\ "chat.completions.parse" \in RemoteOps(gen)
    /\ gen.response = ChatResponse(200, "ok", QuizTwo)

---------------------------------------------------------------------------
\* Properties of the session: the staged documents.

\* The upload call is taken up by its continuation in this step.
UploadSettles(c) ==
    /\ c.kind = "upload" /\ c.status = "responded"
    /\ \A d \in calls' : ~(d.kind = "upload" /\ d.id = c.id)

StagedIds(files) == {files[i].id : i \in 1..Len(files)}

\* C26, as stated: after a successful upload the uploaded documents are no
\* longer in the staged-document list.
C26_UploadedLeaveStaged_Stated ==
    [][\A c \in calls :
          (UploadSettles(c) /\ ResponseOk(c.resp))
              => StagedIds(selectedFiles') \cap Range(c.files) = {}]_vars

\* C26, amended: after a successful upload the documents stay in the
\* staged-document list, marked "uploaded"; a document leaves the list only
\* by its removal or by "upload new files".
C26_UploadedStayStaged ==
    [][/\ \A c \in calls :
             (UploadSettles(c) /\ ResponseOk(c.resp))
                 => /\ StagedIds(selectedFiles') = StagedIds(selectedFiles)
                    /\ AllStatus(selectedFiles', "uploaded")
       /\ ~(StagedIds(selectedFiles) \subseteq StagedIds(selectedFiles'))
             => \/ \E fileId \in StagedIds(selectedFiles) : RemoveFile(fileId)
                \/ HandleUploadNewFiles]_vars

C26_Witness ==
    /\ Len(selectedFiles) = 2
    /\ AllStatus(selectedFiles, "uploaded")
    /\ vectorStoreId = 1
    /\ \E c \in calls : c.kind = "chat" /\ c.id = 1 /\ c.status = "pending"

---------------------------------------------------------------------------
\* Properties of the session: what is displayed.

\* s holds the elements of t, each as often as t does.
IsPermutation(s, t) ==
    /\ Len(s) = Len(t)
    /\ \E f \in [1..Len(t) -> 1..Len(t)] :
          /\ \A i, j \in 1..Len(t) : f[i] = f[j] => i = j
          /\ \A i \in 1..Len(t) : s[i] = t[f[i]]

\* C29: the displayed options are a permutation of the options of the
\* current question, and a step that leaves the question list and the index
\* as they are, select-option among them, leaves the displayed order as it
\* is: the order is chosen when the question becomes current.
C29_ShuffleStablePermutation ==
    /\ [](IsPermutation(shuffledOptions, CurrentOptions))
    /\ [][(questions' = questions /\ currentQuestionIndex' = currentQuestionIndex)
             => shuffledOptions' = shuffledOptions]_vars

C29_Witness ==
    /\ Screen = "quiz"
    /\ isAnswered
    /\ Len(CurrentOptions) = 3
    /\ shuffledOptions = <<CurrentOptions[3], CurrentOptions[1], CurrentOptions[2]>>

Bands == {"excellent", "good", "fair", "poor"}

InBand(percentage, band) ==
    CASE band = "excellent" -> percentage >= 90
      [] band = "good" -> percentage >= 70 /\ percentage <= 89
      [] band = "fair" -> percentage >= 50 /\ percentage <= 69
      [] band = "poor" -> percentage < 50

BandRank(band) ==
    CASE band = "excellent" -> 3
      [] band = "good" -> 2
      [] band = "fair" -> 1
      [] band = "poor" -> 0

\* C30: on the finished screen the percentage is an integer from 0 to 100;
\* every percentage from 0 to 100 lies in exactly one of the bands >= 90,
\* 70..89, 50..69 and below 50, which is the one the screen shows, and a
\* higher percentage never gets a lower band.
C30_PercentageBands ==
    quizFinished
        => /\ Len(questions) > 0
           /\ Percentage \in 0..100
           /\ \A p \in 0..100 : {b \in Bands : InBand(p, b)} = {PerformanceBand(p)}
           /\ \A p \in 0..99 :
                 BandRank(PerformanceBand(p)) <= BandRank(PerformanceBand(p + 1))

C30_Witness ==
    /\ Screen = "finished"
    /\ Len(questions) = 3
    /\ score = 2
    /\ Percentage = 67
    /\ PerformanceBand(Percentage) = "fair"

---------------------------------------------------------------------------
\* Properties of the session: the shape of the reachable states.

\* The advances still to make before the quiz is finished.
Remaining == Len(questions) - currentQuestionIndex

\* C31: between two Answering states the index never decreases; and from an
\* Answering state with n questions at index i, as long as the user does not
\* reset, a selection is always possible on an unanswered question, nothing
\* but an advance changes the list or the index, every advance but the last
\* adds one to the index, and the advance at n - i = 1 is the one that
\* reaches Finished: the quiz is finished after exactly n - i advances.
C31_IndexAdvances ==
    /\ [](Phase = "Answering" => isAnswered \/ Len(CurrentOptions) > 0)
    /\ [][Phase = "Answering" =>
             /\ Phase' = "Answering" => currentQuestionIndex' >= currentQuestionIndex
             /\ ~HandleUploadNewFiles =>
                   IF HandleNextQuestion
                   THEN IF Remaining = 1
                        THEN Phase' = "Finished"
                        ELSE /\ Phase' = "Answering"
                             /\ questions' = questions
                             /\ Remaining' = Remaining - 1
                   ELSE /\ Phase' = "Answering"
                        /\ questions' = questions
                        /\ Remaining' = Remaining]_vars

C31_Witness ==
    /\ lastEvent.op = "advance"
    /\ Phase = "Finished"
    /\ questions = QuizOne \o QuizTwo
    /\ currentQuestionIndex = 2
    /\ answeredSoFar = 3

\* C32: whenever the session is in Answering, the question list is not
\* empty and the current index is one of its places, 0 <= index < length.
C32_IndexInRange ==
    Phase = "Answering" =>
        /\ Len(questions) > 0
        /\ 0 <= currentQuestionIndex
        /\ currentQuestionIndex < Len(questions)

C32_Witness ==
    /\ Phase = "Answering"
    /\ lastEvent.op = "settled"
    /\ lastEvent.trigger = "more"
    /\ lastEvent.ok
    /\ Len(questions) = 2
    /\ currentQuestionIndex = 1

\* C33: whenever the session is in Answering or Finished, the store handle
\* is not null, so that "more questions" and "restart" issue their request.
C33_StoreHandlePresent ==
    Phase \in {"Answering", "Finished"} => vectorStoreId # NoStore

\* This step sends the generation request c of a start-quiz.
StartGenerationSent(c) ==
    /\ c \in calls' \ calls
    /\ c.kind = "chat"
    /\ c.trigger = "start"
    /\ c.status = "pending"

\* C34: whenever start-quiz sends a generation request, the handle it passes
\* names the store that holds exactly the documents staged at that moment:
\* no staged document is missing from the store and none that was removed
\* from the staged list is still in it.
C34_StoreMatchesStaged ==
    [][\A c \in calls' :
          StartGenerationSent(c)
              => /\ c.vectorStoreId = vectorStoreId'
                 /\ Range(storeDocuments') = StagedIds(selectedFiles')]_vars

\* C35: whenever the finished screen is up, and so whenever the session is
\* in Finished, the question list is not empty, the current index is the
\* last one and the current question is answered; the percentage of the
\* finished screen is never a division by zero.
C35_FinishedAtLastAnswered ==
    (quizFinished \/ Phase = "Finished") =>
        /\ Len(questions) > 0
        /\ currentQuestionIndex = Len(questions) - 1
        /\ isAnswered
        /\ selectedOption.q = currentQuestionIndex

C35_Witness ==
    /\ Phase = "Finished"
    /\ Len(questions) = 2
    /\ currentQuestionIndex = 1
    /\ isAnswered
    /\ Percentage = 50

\* C36: in every reachable state the answered flag is true exactly when a
\* selection is recorded, and a recorded selection is one of the options of
\* the current question.
C36_AnsweredIffSelected ==
    /\ isAnswered <=> selectedOption # NoOption
    /\ selectedOption # NoOption =>
          /\ selectedOption.q = currentQuestionIndex
          /\ selectedOption.o \in 1..Len(CurrentOptions)

C36_Witness ==
    /\ Screen = "quiz"
    /\ isAnswered
    /\ selectedOption = [q |-> 1, o |-> 3]
    /\ CurrentOptions = QuizTwo[1].options

---------------------------------------------------------------------------
\* Properties of POST /api/upload, continued.

\* The batch passes the count check and every file its type and size check.
PassesCountAndFileChecks(files) ==
    /\ Len(files) > 0
    /\ Len(files) <= MaxFileCount
    /\ FirstFileError(files) = "ok"

---------------------------------------------------------------------------
\* Properties of the session: the busy flags.

Outstanding(kind) == \E c \in calls : c.kind = kind

\* C38: isUploading and isLoading are never both true; each is true exactly
\* while the gateway call that set it is outstanding, so it is false again
\* once that call has returned, whatever its outcome, and the session is
\* never busy without a call outstanding.
C38_BusyWhileOutstanding ==
    /\ ~(isUploading /\ isLoading)
    /\ isUploading <=> Outstanding("upload")
    /\ isLoading <=> Outstanding("chat")

C38_Witness ==
    /\ lastEvent.op = "settled"
    /\ lastEvent.trigger = "restart"
    /\ ~lastEvent.ok
    /\ error # NoError
    /\ ~isLoading
    /\ ~isUploading
    /\ calls = {}

====
